---- MODULE Spec2Model ----
(***************************************************************************)
(* Model of scripts/extract_weimar_phrases.py: the phrase extraction       *)
(* pipeline (extract_phrases), its pure helpers and the run of main().     *)
(*                                                                         *)
(* Units.  Times (onset, duration) are integers counting 1e-5 s, so that   *)
(* round(x, 4) is a real rounding to a multiple of 10.  Pitches are        *)
(* integers counting half semitones, so that int(pitch) is a real          *)
(* truncation.  A Python dict is a sequence of [k, v] entries in insertion *)
(* order.  str(k) is the sequence of the decimal digits of k.              *)
(***************************************************************************)
EXTENDS Integers, Sequences, FiniteSets, TLC

MIN_PHRASE_LENGTH == 3
MAX_PHRASE_LENGTH == 12

\* ---- bounds of the explored inputs ----
MaxNotes == 14
MaxBounds == 2
MaxSlice == 2
MaxChords == 2

\* ---- number conversions ----

\* int(x) of a pitch given in half semitones: truncation toward zero.
Trunc(p) == IF p >= 0 THEN p \div 2 ELSE -((-p) \div 2)

\* round(x, 4) of a time given in 1e-5 units: nearest multiple of 10, a tie
\* going to the even 4th decimal.
Round4(x) ==
    LET q == x \div 10
        r == x % 10
    IN  IF r < 5 THEN 10 * q
        ELSE IF r > 5 THEN 10 * (q + 1)
        ELSE IF q % 2 = 0 THEN 10 * q ELSE 10 * (q + 1)

\* str(k) for k >= 0, as its decimal digits.
RECURSIVE Str(_)
Str(k) == IF k < 10 THEN <<k>> ELSE Str(k \div 10) \o <<k % 10>>

\* int(s) of a digit string.
RECURSIVE IntOf(_)
IntOf(s) == IF Len(s) = 0 THEN 0
            ELSE 10 * IntOf(SubSeq(s, 1, Len(s) - 1)) + s[Len(s)]

\* ---- get_chords_for_phrase ----

\* The loop over all_chords from position i: last_chord_before is a sequence
\* of length 0 (None) or 1.
RECURSIVE ScanChords(_, _, _, _, _, _)
ScanChords(chords, i, start_onset, end_onset, last_chord_before, acc) ==
    IF i > Len(chords) THEN [last |-> last_chord_before, chords |-> acc]
    ELSE IF chords[i].onset < start_onset
         THEN ScanChords(chords, i + 1, start_onset, end_onset, <<chords[i]>>, acc)
    ELSE IF chords[i].onset <= end_onset
         THEN ScanChords(chords, i + 1, start_onset, end_onset, last_chord_before,
                         Append(acc, chords[i]))
    ELSE ScanChords(chords, i + 1, start_onset, end_onset, last_chord_before, acc)

\* Faulty variant: the chord active at the phrase start is prepended only when no
\* chord at all falls in the window.
IncludeActiveOnlyIfEmpty(last_chord_before, phrase_chords, start_onset) ==
    last_chord_before # <<>> /\ phrase_chords = <<>>

\* Faulty variant: the chord before the phrase is prepended whenever there is one.
IncludeActiveAlways(last_chord_before, phrase_chords, start_onset) ==
    last_chord_before # <<>>

IncludeActive(last_chord_before, phrase_chords, start_onset) ==
    last_chord_before # <<>>
        /\ (phrase_chords = <<>> \/ phrase_chords[1].onset > start_onset)

get_chords_for_phrase(chords, notes) ==
    IF notes = <<>> THEN <<>>
    ELSE LET start_onset == notes[1].onset
             end_onset == notes[Len(notes)].onset + notes[Len(notes)].duration
             s == ScanChords(chords, 1, start_onset, end_onset, <<>>, <<>>)
         IN  IF IncludeActive(s.last, s.chords, start_onset)
             THEN s.last \o s.chords
             ELSE s.chords

\* ---- notes_to_intervals, notes_to_durations, chords_to_relative ----

\* Faulty variant: the pitches are subtracted before the truncation.
IntervalTruncAfter(pitch, first) == Trunc(pitch - first)

Interval(pitch, first) == Trunc(pitch) - Trunc(first)

notes_to_intervals(notes) ==
    IF notes = <<>> THEN <<>>
    ELSE [i \in 1..Len(notes) |-> Interval(notes[i].pitch, notes[1].pitch)]

notes_to_durations(notes) ==
    [i \in 1..Len(notes) |-> Round4(notes[i].duration)]

\* Faulty variant: the offset is the distance from the phrase start, without sign.
BeatOffsetAbs(onset, phrase_start_onset) ==
    IF onset >= phrase_start_onset THEN Round4(onset - phrase_start_onset)
    ELSE Round4(phrase_start_onset - onset)

BeatOffset(onset, phrase_start_onset) == Round4(onset - phrase_start_onset)

chords_to_relative(chords, notes) ==
    IF notes = <<>> \/ chords = <<>> THEN <<>>
    ELSE [i \in 1..Len(chords) |->
            [offset |-> BeatOffset(chords[i].onset, notes[1].onset),
             chord |-> chords[i].chord,
             bass |-> chords[i].bass_pitch]]

\* ---- the slice of a boundary ----

\* note_by_index: the dict from 0-based position to note.
NoteByIndex(notes) == [i \in 0..(Len(notes) - 1) |-> notes[i + 1]]

\* Faulty variant: the membership test is dropped, every index is subscripted.
IndexPresentAlways(note_by_index, idx) == TRUE

\* `idx in note_by_index`
IndexPresent(note_by_index, idx) == idx \in DOMAIN note_by_index

\* The indices of range(start_idx, end_idx + 1) that are subscripted.
LookedUp(note_by_index, start_idx, end_idx) ==
    {idx \in start_idx..end_idx : IndexPresent(note_by_index, idx)}

\* note_by_index[idx] of an absent key raises KeyError.
RaisesKeyError(note_by_index, start_idx, end_idx) ==
    \E idx \in LookedUp(note_by_index, start_idx, end_idx) :
        idx \notin DOMAIN note_by_index

RECURSIVE SliceFrom(_, _, _)
SliceFrom(note_by_index, idx, end_idx) ==
    IF idx > end_idx THEN <<>>
    ELSE (IF IndexPresent(note_by_index, idx) /\ idx \in DOMAIN note_by_index
          THEN <<note_by_index[idx]>> ELSE <<>>)
         \o SliceFrom(note_by_index, idx + 1, end_idx)

\* Faulty variant: the upper length limit is not applied.
LengthRejectedNoMax(phrase_length) == phrase_length < MIN_PHRASE_LENGTH

\* Faulty variant: a slice of MIN_PHRASE_LENGTH notes is rejected too.
LengthRejectedOffByOne(phrase_length) ==
    phrase_length <= MIN_PHRASE_LENGTH \/ phrase_length > MAX_PHRASE_LENGTH

LengthRejected(phrase_length) ==
    phrase_length < MIN_PHRASE_LENGTH \/ phrase_length > MAX_PHRASE_LENGTH

SourceId(melid, start_idx, end_idx) == <<"wjd", melid, start_idx, end_idx>>

PhraseData(info, chords, notes, start_idx, end_idx) ==
    [intervals |-> notes_to_intervals(notes),
     durations |-> notes_to_durations(notes),
     sourceId |-> SourceId(info.melid, start_idx, end_idx),
     chords |-> chords_to_relative(get_chords_for_phrase(chords, notes), notes),
     metadata |-> [performer |-> info.performer, title |-> info.title,
                   key |-> info.key, startBar |-> notes[1].bar]]

\* ---- the dict phrases_by_length and the output mapping ----

HasKey(d, k) == \E i \in 1..Len(d) : d[i].k = k

\* Faulty variant: the record is put in front of its bucket.
BucketAddFront(bucket, phrase_data) == <<phrase_data>> \o bucket

BucketAdd(bucket, phrase_data) == Append(bucket, phrase_data)

\* phrases_by_length[k].append(phrase_data) on a defaultdict(list).
DictAppend(d, k, phrase_data) ==
    IF HasKey(d, k)
    THEN [i \in 1..Len(d) |->
            IF d[i].k = k THEN [k |-> k, v |-> BucketAdd(d[i].v, phrase_data)]
            ELSE d[i]]
    ELSE Append(d, [k |-> k, v |-> BucketAdd(<<>>, phrase_data)])

RECURSIVE InsertSorted(_, _)
InsertSorted(sorted, e) ==
    IF sorted = <<>> THEN <<e>>
    ELSE IF e.k < sorted[1].k THEN <<e>> \o sorted
    ELSE <<sorted[1]>> \o InsertSorted(Tail(sorted), e)

RECURSIVE SortedItemsFrom(_, _)
SortedItemsFrom(d, i) ==
    IF i = 0 THEN <<>> ELSE InsertSorted(SortedItemsFrom(d, i - 1), d[i])

\* sorted(phrases_by_length.items()): by key, the keys being distinct.
SortedItems(d) == SortedItemsFrom(d, Len(d))

\* {str(k): v for k, v in sorted(...)}
OutputOf(d) ==
    LET s == SortedItems(d)
    IN  [i \in 1..Len(s) |-> [key |-> Str(s[i].k), v |-> s[i].v]]

\* ---- the record source: what the four queries can return ----

\* get_solo_info: the rows in the order the query yields them (the melids
\* are not in ascending order).
SoloRows ==
    << [melid |-> 7, performer |-> "Miles Davis", title |-> "So What", key |-> "D-dor"],
       [melid |-> 3, performer |-> "Chet Baker", title |-> "Just Friends", key |-> "F-maj"] >>

\* get_melody_notes: n notes ordered by onset; the event ids are neither
\* 0-based nor the positions, some pitches are fractional.
MelodyRows(n) ==
    [i \in 1..n |->
        [eventid |-> 100 + 2 * i,
         pitch |-> 120 + ((3 * (i - 1)) % 7),
         duration |-> 25002 + i,
         onset |-> 50000 * (i - 1),
         bar |-> 1 + ((i - 1) \div 4),
         beat |-> 1 + ((i - 1) % 4)]]

NoteCounts == {2, 4, MaxNotes}

\* get_chords: the chord timeline of a solo, ordered by onset; the second
\* solo has no chord rows.
ChordRows(melid) ==
    IF melid = SoloRows[1].melid
    THEN << [onset |-> -100000, bar |-> 0, beat |-> 1, chord |-> "Cmaj7", bass_pitch |-> 48],
            [onset |-> 50004, bar |-> 1, beat |-> 2, chord |-> "F7", bass_pitch |-> 41],
            [onset |-> 100000, bar |-> 1, beat |-> 3, chord |-> "G7", bass_pitch |-> 43] >>
    ELSE <<>>

\* get_phrase_boundaries: (start, end) pairs ordered by start.
BoundaryPairs ==
    {<<0, 1>>, <<0, 2>>, <<0, MAX_PHRASE_LENGTH - 1>>,
     <<0, MaxNotes + 1>>, <<2, MaxNotes + 1>>}

BoundaryLists ==
    {b \in UNION {[1..m -> BoundaryPairs] : m \in 0..MaxBounds} :
        \A i \in 1..(Len(b) - 1) : b[i][1] <= b[i + 1][1]}

\* The corpora of the runs whose termination is checked: at most one
\* boundary per solo.
ShortBoundaryLists == {b \in BoundaryLists : Len(b) <= 1}

\* ---- inputs of the calls of the pure functions ----

SliceNotes ==
    [eventid : {0}, pitch : {121, 122}, duration : {0, 7},
     onset : {10, 15}, bar : {1}, beat : {1}]

Slices ==
    {n \in UNION {[1..m -> SliceNotes] : m \in 1..MaxSlice} :
        \A i \in 1..(Len(n) - 1) : n[i].onset <= n[i + 1].onset}

TimelineChords ==
    [onset : {4, 10, 15, 22}, bar : {1}, beat : {1},
     chord : {"C7", "F7"}, bass_pitch : {36}]

Timelines ==
    {c \in UNION {[1..m -> TimelineChords] : m \in 0..MaxChords} :
        \A i \in 1..(Len(c) - 1) : c[i].onset <= c[i + 1].onset}

\* ---- state ----

VARIABLES
    pc,                 \* position in main / extract_phrases
    db_exists,          \* os.path.exists(db_path)
    dir_exists,         \* the output directory, made by os.makedirs
    conn,               \* "none", "open" or "closed"
    opens, closes,      \* calls of sqlite3.connect and of conn.close that returned
    exc,                \* the exception that is propagating, or "none"
    solo_info, si,      \* the dict of solos and the position of the outer loop
    phrase_boundaries, all_notes, all_chords,
    bi,                 \* position of the inner loop
    phrases_by_length, total_phrases, skipped_chromatic, skipped_length,
    processed,          \* iterations of the inner loop so far
    output,             \* the mapping extract_phrases returns
    file,               \* the output file
    arg_notes, arg_chords,                                \* a call's arguments
    ret_chords, ret_relative, ret_intervals, ret_durations \* and its results

envVars == <<db_exists, dir_exists>>
connVars == <<conn, opens, closes>>
soloVars == <<phrase_boundaries, all_notes, all_chords, bi>>
accVars == <<phrases_by_length, total_phrases, skipped_chromatic, skipped_length,
             processed>>
callVars == <<arg_notes, arg_chords, ret_chords, ret_relative, ret_intervals,
              ret_durations>>
vars == <<pc, envVars, connVars, exc, solo_info, si, soloVars, accVars, output,
          file, callVars>>

NoFile == [exists |-> FALSE, content |-> <<>>, complete |-> FALSE]

MainInit ==
    /\ dir_exists = FALSE
    /\ conn = "none" /\ opens = 0 /\ closes = 0
    /\ exc = "none"
    /\ solo_info = <<>> /\ si = 0
    /\ phrase_boundaries = <<>> /\ all_notes = <<>> /\ all_chords = <<>> /\ bi = 0
    /\ phrases_by_length = <<>>
    /\ total_phrases = 0 /\ skipped_chromatic = 0 /\ skipped_length = 0
    /\ processed = 0
    /\ output = <<>>
    /\ file = NoFile

NoCall ==
    /\ ret_chords = <<>> /\ ret_relative = <<>>
    /\ ret_intervals = <<>> /\ ret_durations = <<>>

Init ==
    /\ pc = "makedirs"
    /\ db_exists \in BOOLEAN
    /\ MainInit
    /\ arg_notes = <<>> /\ arg_chords = <<>> /\ NoCall

\* ---- main ----

\* os.makedirs(..., exist_ok=True) returns.
MakeDirs ==
    /\ pc = "makedirs"
    /\ dir_exists' = TRUE
    /\ pc' = "get_connection"
    /\ UNCHANGED <<db_exists, connVars, exc, solo_info, si, soloVars, accVars,
                   output, file, callVars>>

\* os.makedirs raises: main ends before get_connection.
MakeDirsFails ==
    /\ pc = "makedirs"
    /\ exc' = "OSError"
    /\ pc' = "failed"
    /\ UNCHANGED <<envVars, connVars, solo_info, si, soloVars, accVars, output,
                   file, callVars>>

\* get_connection: the database is missing, sys.exit(1).
CorpusMissing ==
    /\ pc = "get_connection"
    /\ ~db_exists
    /\ pc' = "exited"
    /\ UNCHANGED <<envVars, connVars, exc, solo_info, si, soloVars, accVars,
                   output, file, callVars>>

\* get_connection: sqlite3.connect returns.
Connect ==
    /\ pc = "get_connection"
    /\ db_exists
    /\ conn' = "open"
    /\ opens' = opens + 1
    /\ pc' = "get_solo_info"
    /\ UNCHANGED <<envVars, closes, exc, solo_info, si, soloVars, accVars, output,
                   file, callVars>>

\* get_connection: sqlite3.connect raises, outside the try block.
ConnectFails ==
    /\ pc = "get_connection"
    /\ db_exists
    /\ exc' = "sqlite3.Error"
    /\ pc' = "failed"
    /\ UNCHANGED <<envVars, connVars, solo_info, si, soloVars, accVars, output,
                   file, callVars>>

\* ---- extract_phrases ----

GetSoloInfo ==
    /\ pc = "get_solo_info"
    /\ \E n \in 0..Len(SoloRows) : solo_info' = SubSeq(SoloRows, 1, n)
    /\ si' = 1
    /\ pc' = "solo"
    /\ UNCHANGED <<envVars, connVars, exc, soloVars, accVars, output, file, callVars>>

\* Top of `for melid, info in solo_info.items()`: the three queries of a
\* solo, the boundary rows being one of `lists`.
ReadSoloFrom(lists) ==
    /\ pc = "solo"
    /\ si <= Len(solo_info)
    /\ phrase_boundaries' \in lists
    /\ \E n \in NoteCounts : all_notes' = MelodyRows(n)
    /\ all_chords' = ChordRows(solo_info[si].melid)
    /\ bi' = 1
    /\ pc' = "boundary"
    /\ UNCHANGED <<envVars, connVars, exc, solo_info, si, accVars, output, file,
                   callVars>>

ReadSolo == ReadSoloFrom(BoundaryLists)

ReadSoloShort == ReadSoloFrom(ShortBoundaryLists)

\* Faulty variant: the queries run outside the try block, so that a failing query
\* ends main without passing through the finally clause.
ReadFailsNoFinally ==
    /\ \/ pc = "get_solo_info"
       \/ pc = "solo" /\ si <= Len(solo_info)
    /\ exc' = "sqlite3.Error"
    /\ pc' = "failed"
    /\ UNCHANGED <<envVars, connVars, solo_info, si, soloVars, accVars, output,
                   file, callVars>>

\* A query (conn.execute) raises inside the try block.
ReadFails ==
    /\ \/ pc = "get_solo_info"
       \/ pc = "solo" /\ si <= Len(solo_info)
    /\ exc' = "sqlite3.Error"
    /\ pc' = "finally"
    /\ UNCHANGED <<envVars, connVars, solo_info, si, soloVars, accVars, output,
                   file, callVars>>

\* One iteration of `for start_idx, end_idx in phrase_boundaries`.
ProcessBoundary ==
    /\ pc = "boundary"
    /\ bi <= Len(phrase_boundaries)
    /\ LET info == solo_info[si]
           start_idx == phrase_boundaries[bi][1]
           end_idx == phrase_boundaries[bi][2]
           note_by_index == NoteByIndex(all_notes)
           phrase_notes == SliceFrom(note_by_index, start_idx, end_idx)
           phrase_length == Len(phrase_notes)
       IN  IF RaisesKeyError(note_by_index, start_idx, end_idx)
           THEN /\ exc' = "KeyError"
                /\ pc' = "finally"
                /\ UNCHANGED <<bi, accVars>>
           ELSE /\ processed' = processed + 1
                /\ bi' = bi + 1
                /\ UNCHANGED <<pc, exc, skipped_chromatic>>
                /\ IF LengthRejected(phrase_length)
                   THEN /\ skipped_length' = skipped_length + 1
                        /\ UNCHANGED <<phrases_by_length, total_phrases>>
                   ELSE /\ phrases_by_length' =
                              DictAppend(phrases_by_length, phrase_length,
                                         PhraseData(info, all_chords, phrase_notes,
                                                    start_idx, end_idx))
                        /\ total_phrases' = total_phrases + 1
                        /\ UNCHANGED skipped_length
    /\ UNCHANGED <<envVars, connVars, solo_info, si, phrase_boundaries, all_notes,
                   all_chords, output, file, callVars>>

\* The boundaries of the solo are exhausted: on to the next solo.
EndSolo ==
    /\ pc = "boundary"
    /\ bi > Len(phrase_boundaries)
    /\ si' = si + 1
    /\ pc' = "solo"
    /\ UNCHANGED <<envVars, connVars, exc, solo_info, soloVars, accVars, output,
                   file, callVars>>

\* The solos are exhausted: the counters are printed and the output built.
BuildOutput ==
    /\ pc = "solo"
    /\ si > Len(solo_info)
    /\ output' = OutputOf(phrases_by_length)
    /\ pc' = "open"
    /\ UNCHANGED <<envVars, connVars, exc, solo_info, si, soloVars, accVars, file,
                   callVars>>

\* ---- writing the output ----

\* open(output_path, 'w') creates or truncates the file.
OpenFile ==
    /\ pc = "open"
    /\ file' = [exists |-> TRUE, content |-> <<>>, complete |-> FALSE]
    /\ pc' = "dump"
    /\ UNCHANGED <<envVars, connVars, exc, solo_info, si, soloVars, accVars, output,
                   callVars>>

OpenFails ==
    /\ pc = "open"
    /\ exc' = "OSError"
    /\ pc' = "finally"
    /\ UNCHANGED <<envVars, connVars, solo_info, si, soloVars, accVars, output,
                   file, callVars>>

\* json.dump writes the document piece by piece: here one bucket at a time.
DumpChunk ==
    /\ pc = "dump"
    /\ Len(file.content) < Len(output)
    /\ file' = [file EXCEPT !.content = Append(@, output[Len(@) + 1])]
    /\ UNCHANGED <<pc, envVars, connVars, exc, solo_info, si, soloVars, accVars,
                   output, callVars>>

\* The closing braces are written and the with block closes the file.
DumpEnd ==
    /\ pc = "dump"
    /\ Len(file.content) = Len(output)
    /\ file' = [file EXCEPT !.complete = TRUE]
    /\ pc' = "summary"
    /\ UNCHANGED <<envVars, connVars, exc, solo_info, si, soloVars, accVars, output,
                   callVars>>

\* A write raises (disk full, I/O error): the with block closes the file as
\* it is and the exception propagates.
DumpFails ==
    /\ pc = "dump"
    /\ exc' = "OSError"
    /\ pc' = "finally"
    /\ UNCHANGED <<envVars, connVars, solo_info, si, soloVars, accVars, output,
                   file, callVars>>

\* The summary by length is printed.
PrintSummary ==
    /\ pc = "summary"
    /\ pc' = "finally"
    /\ UNCHANGED <<envVars, connVars, exc, solo_info, si, soloVars, accVars, output,
                   file, callVars>>

\* finally: conn.close(), then main returns or the exception leaves main.
CloseConnection ==
    /\ pc = "finally"
    /\ conn' = "closed"
    /\ closes' = closes + 1
    /\ pc' = IF exc # "none" THEN "failed" ELSE "done"
    /\ UNCHANGED <<envVars, opens, exc, solo_info, si, soloVars, accVars, output,
                   file, callVars>>

Next ==
    \/ MakeDirs \/ MakeDirsFails
    \/ CorpusMissing \/ Connect \/ ConnectFails
    \/ GetSoloInfo \/ ReadSolo \/ ReadFails
    \/ ProcessBoundary \/ EndSolo \/ BuildOutput
    \/ OpenFile \/ OpenFails \/ DumpChunk \/ DumpEnd \/ DumpFails
    \/ PrintSummary \/ CloseConnection

Spec == Init /\ [][Next]_vars

\* The runs of main over the corpora of ShortBoundaryLists.  main runs to
\* its end: the program is sequential and nothing blocks a step of it.
RunNext ==
    \/ MakeDirs \/ MakeDirsFails
    \/ CorpusMissing \/ Connect \/ ConnectFails
    \/ GetSoloInfo \/ ReadSoloShort \/ ReadFails
    \/ ProcessBoundary \/ EndSolo \/ BuildOutput
    \/ OpenFile \/ OpenFails \/ DumpChunk \/ DumpEnd \/ DumpFails
    \/ PrintSummary \/ CloseConnection

LiveSpec == Init /\ [][RunNext]_vars /\ WF_vars(RunNext)

\* ---- calls of the pure functions on every slice and timeline ----

FnInit ==
    /\ pc = "get_chords_for_phrase"
    /\ db_exists = TRUE
    /\ MainInit
    /\ arg_notes \in Slices
    /\ arg_chords \in Timelines
    /\ NoCall

CallGetChordsForPhrase ==
    /\ pc = "get_chords_for_phrase"
    /\ ret_chords' = get_chords_for_phrase(arg_chords, arg_notes)
    /\ pc' = "chords_to_relative"
    /\ UNCHANGED <<envVars, connVars, exc, solo_info, si, soloVars, accVars, output,
                   file, arg_notes, arg_chords, ret_relative, ret_intervals,
                   ret_durations>>

CallChordsToRelative ==
    /\ pc = "chords_to_relative"
    /\ ret_relative' = chords_to_relative(ret_chords, arg_notes)
    /\ pc' = "notes_to_intervals"
    /\ UNCHANGED <<envVars, connVars, exc, solo_info, si, soloVars, accVars, output,
                   file, arg_notes, arg_chords, ret_chords, ret_intervals,
                   ret_durations>>

CallNotesToIntervals ==
    /\ pc = "notes_to_intervals"
    /\ ret_intervals' = notes_to_intervals(arg_notes)
    /\ pc' = "notes_to_durations"
    /\ UNCHANGED <<envVars, connVars, exc, solo_info, si, soloVars, accVars, output,
                   file, arg_notes, arg_chords, ret_chords, ret_relative,
                   ret_durations>>

CallNotesToDurations ==
    /\ pc = "notes_to_durations"
    /\ ret_durations' = notes_to_durations(arg_notes)
    /\ pc' = "returned"
    /\ UNCHANGED <<envVars, connVars, exc, solo_info, si, soloVars, accVars, output,
                   file, arg_notes, arg_chords, ret_chords, ret_relative,
                   ret_intervals>>

FnNext ==
    \/ CallGetChordsForPhrase \/ CallChordsToRelative
    \/ CallNotesToIntervals \/ CallNotesToDurations

FnSpec == FnInit /\ [][FnNext]_vars

Terminated == pc \in {"done", "failed", "exited"}

\* ---- vocabulary of the properties ----

\* Every record of every bucket, with the key of its bucket.
Stored(d) == {<<d[i].k, d[i].v[j]>> : <<i, j>> \in
                {<<i, j>> \in (1..Len(d)) \X (1..(MaxBounds * Len(SoloRows))) :
                    j <= Len(d[i].v)}}

Bucket(d, k) == IF HasKey(d, k) THEN (CHOOSE e \in {d[i] : i \in 1..Len(d)} : e.k = k).v
                ELSE <<>>

Keys(d) == {d[i].k : i \in 1..Len(d)}

RECURSIVE TotalStored(_, _)
TotalStored(d, i) == IF i = 0 THEN 0 ELSE Len(d[i].v) + TotalStored(d, i - 1)

IsPrefix(a, b) == Len(a) <= Len(b) /\ SubSeq(b, 1, Len(a)) = a

\* The positions of [start_idx, end_idx] at which the solo has a note.
Existing(start_idx, end_idx) ==
    {i \in start_idx..end_idx : 0 <= i /\ i < Len(all_notes)}

\* The boundaries of the current solo that the inner loop has passed.
Passed == IF pc = "boundary" THEN 1..(bi - 1) ELSE {}

Appears(melid, b) ==
    \E r \in Stored(phrases_by_length) : r[2].sourceId = SourceId(melid, b[1], b[2])

\* Position of a solo in the iteration of solo_info.
SoloPos(melid) == CHOOSE i \in 1..Len(solo_info) : solo_info[i].melid = melid

start_of == IF arg_notes = <<>> THEN 0 ELSE arg_notes[1].onset

end_of == IF arg_notes = <<>> THEN 0
          ELSE arg_notes[Len(arg_notes)].onset + arg_notes[Len(arg_notes)].duration

ChordsReturned == pc \in {"chords_to_relative", "notes_to_intervals",
                          "notes_to_durations", "returned"}

\* ---- C1 ----

\* C1: every record in a bucket has between 3 and 12 intervals, as many
\* durations as intervals, and lies in the bucket whose key is that count;
\* the same holds of the keys of the output mapping.
C1_AcceptedLengths ==
    /\ \A r \in Stored(phrases_by_length) :
          /\ MIN_PHRASE_LENGTH <= Len(r[2].intervals)
          /\ Len(r[2].intervals) <= MAX_PHRASE_LENGTH
          /\ Len(r[2].intervals) = Len(r[2].durations)
          /\ r[1] = Len(r[2].intervals)
    /\ \A i \in 1..Len(output) : \A j \in 1..Len(output[i].v) :
          IntOf(output[i].key) = Len(output[i].v[j].intervals)

\* A finished extraction that kept a 3-note and a 12-note phrase and rejected
\* a boundary for its length.
C1_Witness ==
    /\ pc = "open"
    /\ {MIN_PHRASE_LENGTH, MAX_PHRASE_LENGTH} \subseteq Keys(phrases_by_length)
    /\ skipped_length > 0

\* ---- C2 ----

C6_CountersAgree ==
    /\ total_phrases + skipped_length = processed
    /\ total_phrases = TotalStored(phrases_by_length, Len(phrases_by_length))
    /\ skipped_chromatic = 0

C6_OneOutcome ==
    processed' # processed =>
        LET b == phrase_boundaries[bi]
            n == Cardinality(Existing(b[1], b[2]))
        IN  /\ processed' = processed + 1
            /\ IF n < MIN_PHRASE_LENGTH \/ n > MAX_PHRASE_LENGTH
               THEN /\ skipped_length' = skipped_length + 1
                    /\ total_phrases' = total_phrases
                    /\ phrases_by_length' = phrases_by_length
               ELSE /\ skipped_length' = skipped_length
                    /\ total_phrases' = total_phrases + 1
                    /\ Len(Bucket(phrases_by_length', n)) =
                           Len(Bucket(phrases_by_length, n)) + 1
                    /\ \A k \in Keys(phrases_by_length') \ {n} :
                           Bucket(phrases_by_length', k) = Bucket(phrases_by_length, k)
                    /\ Keys(phrases_by_length') = Keys(phrases_by_length) \cup {n}

C6_AcceptedOrSkipped == []C6_CountersAgree /\ [][C6_OneOutcome]_vars

\* A run that has both accepted and rejected boundaries, in two solos.
C6_Witness ==
    /\ total_phrases >= 2
    /\ skipped_length >= 2
    /\ si = Len(SoloRows)

\* ---- C7 ----

\* C7: a bucket only ever grows at its end; the records of a bucket are in
\* the order of the solos' iteration and, within a solo, of its boundaries
\* (which come ordered by start); the keys of the output mapping ascend by
\* their numeric value.
C7_DiscoveryOrder ==
    /\ \A i \in 1..Len(phrases_by_length) :
          LET v == phrases_by_length[i].v
          IN  \A x, y \in 1..Len(v) :
                x < y =>
                  \/ SoloPos(v[x].sourceId[2]) < SoloPos(v[y].sourceId[2])
                  \/ /\ v[x].sourceId[2] = v[y].sourceId[2]
                     /\ v[x].sourceId[3] <= v[y].sourceId[3]
    /\ \A i \in 1..(Len(output) - 1) :
          IntOf(output[i].key) < IntOf(output[i + 1].key)
    /\ pc \in {"open", "dump", "summary"} =>
          /\ {IntOf(output[i].key) : i \in 1..Len(output)} = Keys(phrases_by_length)
          /\ \A i \in 1..Len(output) :
                output[i].v = Bucket(phrases_by_length, IntOf(output[i].key))

C7_AppendOnly ==
    \A k \in Keys(phrases_by_length) :
        IsPrefix(Bucket(phrases_by_length, k), Bucket(phrases_by_length', k))

C7_BucketOrder == []C7_DiscoveryOrder /\ [][C7_AppendOnly]_vars

\* The 12-note bucket was created before the 3-note bucket, holds records of
\* both solos, and the output has been built.
C7_Witness ==
    /\ pc = "open"
    /\ Len(phrases_by_length) >= 2
    /\ phrases_by_length[1].k = MAX_PHRASE_LENGTH
    /\ phrases_by_length[2].k = MIN_PHRASE_LENGTH
    /\ \E x, y \in 1..Len(phrases_by_length[1].v) :
          phrases_by_length[1].v[x].sourceId[2] # phrases_by_length[1].v[y].sourceId[2]

\* ---- C8 ----

\* C8: sqlite3.connect returns at most once in a run; a connection that is
\* open is eventually closed, by one call of close; and no run has ended
\* with the connection open, whichever step failed.
C8_Scoped ==
    /\ opens <= 1
    /\ closes <= opens
    /\ conn = "open" <=> (opens = 1 /\ closes = 0)
    /\ Terminated => (conn # "open" /\ closes = opens)

C8_ConnectionReleased ==
    /\ []C8_Scoped
    /\ (conn = "open") ~> (conn = "closed" /\ closes = 1)

\* A run in which a query failed after the connection was opened, and which
\* ended with the connection closed.
C8_Witness ==
    /\ pc = "failed"
    /\ exc = "sqlite3.Error"
    /\ opens = 1
    /\ conn = "closed"

\* ---- C9 ----

\* C9: the output file is not touched before extract_phrases has gone through
\* every solo; a run that ends in a failure or exits for a missing corpus
\* leaves no output file, partial or not; a run that completes leaves the
\* full mapping.
C9_AllOrNothing ==
    /\ file.exists => (pc \in {"dump", "summary", "finally", "done", "failed"}
                       /\ si > Len(solo_info))
    /\ pc \in {"failed", "exited"} => ~file.exists
    /\ pc = "done" => (file.complete /\ file.content = output)

\* ---- C3 ----

\* C3: when get_chords_for_phrase returns a non-empty list for a non-empty
\* slice, the last chord of the timeline whose onset is <= the onset of the
\* first note, if there is one, is in the list.
C3_ActiveChordIncluded ==
    (ChordsReturned /\ ret_chords # <<>>) =>
        LET atOrBefore == {i \in 1..Len(arg_chords) : arg_chords[i].onset <= start_of}
        IN  atOrBefore # {} =>
              LET a == CHOOSE i \in atOrBefore : \A j \in atOrBefore : j <= i
              IN  \E x \in 1..Len(ret_chords) : ret_chords[x] = arg_chords[a]

\* The active chord starts before the phrase and another chord falls inside
\* the phrase.
C3_Witness ==
    /\ ChordsReturned
    /\ Len(ret_chords) >= 2
    /\ ret_chords[1].onset < start_of
    /\ ret_chords[2].onset > start_of

\* ---- C10 ----

\* C10: get_chords_for_phrase returns the chords of the timeline whose onset
\* is in [start, end], in timeline order, preceded by the last chord whose
\* onset is < start if and only if there is one and no chord has its onset
\* at start; so no returned chord starts after end, at most one starts before
\* start, and an empty timeline gives an empty list.
C10_ChordSelection ==
    ChordsReturned =>
        LET inWindow(c) == start_of <= c.onset /\ c.onset <= end_of
            collected == SelectSeq(arg_chords, inWindow)
            before == {i \in 1..Len(arg_chords) : arg_chords[i].onset < start_of}
            atStart == \E i \in 1..Len(collected) : collected[i].onset = start_of
            last == CHOOSE i \in before : \A j \in before : j <= i
        IN  /\ ret_chords = IF before # {} /\ ~atStart
                            THEN <<arg_chords[last]>> \o collected
                            ELSE collected
            /\ \A x \in 1..Len(ret_chords) : ret_chords[x].onset <= end_of
            /\ Cardinality({x \in 1..Len(ret_chords) :
                              ret_chords[x].onset < start_of}) <= 1
            /\ arg_chords = <<>> => ret_chords = <<>>

\* A chord before the phrase is in the timeline but is not returned, since
\* another chord starts with the phrase.
C10_Witness ==
    /\ ChordsReturned
    /\ \E i \in 1..Len(arg_chords) : arg_chords[i].onset < start_of
    /\ ret_chords # <<>>
    /\ ret_chords[1].onset = start_of

\* ---- C4 ----

\* C4: in a non-empty chord list the first offset is <= 0 when the first
\* chord starts before the phrase and >= 0 otherwise, and the offsets never
\* decrease along the list.
C4_OffsetsOrdered ==
    (pc \in {"notes_to_intervals", "notes_to_durations", "returned"}
        /\ ret_relative # <<>>) =>
        /\ Len(ret_relative) = Len(ret_chords)
        /\ IF ret_chords[1].onset < start_of
           THEN ret_relative[1].offset <= 0
           ELSE ret_relative[1].offset >= 0
        /\ \A x \in 1..(Len(ret_relative) - 1) :
              ret_relative[x].offset <= ret_relative[x + 1].offset

\* The first chord starts before the phrase, with a negative offset, and a
\* later chord has a positive one.
C4_Witness ==
    /\ pc = "returned"
    /\ Len(ret_relative) >= 2
    /\ ret_relative[1].offset < 0
    /\ ret_relative[2].offset > 0

\* ---- C5 ----

\* C5: notes_to_intervals gives, for a non-empty slice, one integer per note,
\* the truncated pitch of the note minus the truncated pitch of the first
\* note; the first interval is 0.
C5_IntervalsFromFirst ==
    pc \in {"notes_to_durations", "returned"} =>
        /\ Len(ret_intervals) = Len(arg_notes)
        /\ \A i \in 1..Len(arg_notes) :
              ret_intervals[i] = Trunc(arg_notes[i].pitch) - Trunc(arg_notes[1].pitch)
        /\ ret_intervals[1] = 0

\* A slice that starts on a fractional pitch and rises by half a semitone
\* into the next integer pitch.
C5_Witness ==
    /\ pc = "returned"
    /\ Len(arg_notes) >= 2
    /\ arg_notes[1].pitch % 2 = 1
    /\ arg_notes[2].pitch = arg_notes[1].pitch + 1
    /\ ret_intervals[2] = 1

====
